---- MODULE Spec2Model ----
(***************************************************************************)
(* Hubspace light control server (src/main.py): the POST /control handler, *)
(* its per-device worker threads and the vendor client they call.          *)
(*                                                                         *)
(* Python strings are modelled as sequences of one-character strings, so   *)
(* that lower(), upper(), replace(), startswith(), len() and the hex       *)
(* formatting are computed character by character.  Optional[T] is a       *)
(* sequence of length at most one: None is <<>>, a value v is <<v>>.       *)
(***************************************************************************)
EXTENDS Integers, Sequences, FiniteSets, TLC

(***************************************************************************)
(* Bounds of the model.                                                    *)
(***************************************************************************)
\* the vendor account holds at most this many named lights
MaxLights == 3
\* the server handles at most this many requests in one run
MaxRequests == 2

(***************************************************************************)
(* Python values.                                                          *)
(***************************************************************************)
None == <<>>
Some(v) == <<v>>
IsNone(o) == o = <<>>
Val(o) == o[1]

LowerLetters == <<"a","b","c","d","e","f","g","h","i","j","k","l","m",
                  "n","o","p","q","r","s","t","u","v","w","x","y","z">>
UpperLetters == <<"A","B","C","D","E","F","G","H","I","J","K","L","M",
                  "N","O","P","Q","R","S","T","U","V","W","X","Y","Z">>

IndexIn(c, letters) ==
  IF \E i \in 1..Len(letters) : letters[i] = c
  THEN CHOOSE i \in 1..Len(letters) : letters[i] = c
  ELSE 0

\* the characters that have another case, each with its lower and upper form
Letters == {LowerLetters[i] : i \in 1..Len(LowerLetters)}
             \cup {UpperLetters[i] : i \in 1..Len(UpperLetters)}

LowerOf ==
  [c \in Letters |->
     IF IndexIn(c, UpperLetters) > 0 THEN LowerLetters[IndexIn(c, UpperLetters)] ELSE c]

UpperOf ==
  [c \in Letters |->
     IF IndexIn(c, LowerLetters) > 0 THEN UpperLetters[IndexIn(c, LowerLetters)] ELSE c]

LowerChar(c) == IF c \in Letters THEN LowerOf[c] ELSE c

UpperChar(c) == IF c \in Letters THEN UpperOf[c] ELSE c

\* str.lower()
lower(s) == [i \in 1..Len(s) |-> LowerChar(s[i])]

\* str.upper()
upper(s) == [i \in 1..Len(s) |-> UpperChar(s[i])]

\* str.startswith(c) for a one-character prefix
startswith(s, c) == Len(s) > 0 /\ s[1] = c

\* str.replace(c, '') for a one-character pattern
replace(s, c) == SelectSeq(s, LAMBDA x : x # c)

\* truth value of an Optional[str]: None and '' are both false
Truthy(o) == ~IsNone(o) /\ Val(o) # <<>>

HexDigits == <<"0","1","2","3","4","5","6","7","8","9","A","B","C","D","E","F">>
DecDigits == <<"0","1","2","3","4","5","6","7","8","9">>

\* f"{b:02X}" for 0 <= b <= 255
FormatHex02(b) == <<HexDigits[(b \div 16) + 1], HexDigits[(b % 16) + 1]>>

IsDecimal(s) == Len(s) > 0 /\ \A i \in 1..Len(s) : IndexIn(s[i], DecDigits) > 0

RECURSIVE DecimalValue(_)
DecimalValue(s) ==
  IF s = <<>> THEN 0
  ELSE 10 * DecimalValue(SubSeq(s, 1, Len(s) - 1)) + (IndexIn(s[Len(s)], DecDigits) - 1)

\* int(s): None stands for the ValueError int() raises on a non-decimal string
ParseInt(s) == IF IsDecimal(s) THEN Some(DecimalValue(s)) ELSE None

(***************************************************************************)
(* Configuration.                                                          *)
(***************************************************************************)
SECRET_TOKEN == "SECRET123"

\* f"Bearer {SECRET_TOKEN}"
BearerHeader(token) == <<"Bearer ", token>>

(***************************************************************************)
(* The vendor account: named lights 1..n, then a fan that carries a        *)
(* light's name, then a light without a name.                              *)
(***************************************************************************)
FanId == MaxLights + 1
NamelessId == MaxLights + 2
DeviceIds == 1..(MaxLights + 2)

DevName(d) ==
  CASE d = 1 -> <<"L","a","m","p">>
    [] d = 2 -> <<"L","A","M","P">>
    [] d = 3 -> <<"D","e","s","k">>
    [] d = FanId -> <<"l","a","m","p">>
    [] d = NamelessId -> <<>>
    [] OTHER -> <<"P","o","r","c","h">>

DevClass(d) ==
  CASE d = 1 -> <<"l","i","g","h","t">>
    [] d = 2 -> <<"L","i","g","h","t">>
    [] d = 3 -> <<"L","I","G","H","T">>
    [] d = FanId -> <<"f","a","n">>
    [] OTHER -> <<"l","i","g","h","t">>

\* hubspace_client.getDevices() on an account with n named lights
getDevices(n) == <<FanId>> \o [i \in 1..n |-> i] \o <<NamelessId>>

\* what device.getAttributes() returns when it does not raise, a list of
\* {id, value}: the first light reports power, brightness and color, the second
\* power alone, the third a brightness that is not a decimal number
getAttributes(d) ==
  CASE d = 2 -> << [id |-> 1, value |-> <<"0">>] >>
    [] d = 3 -> << [id |-> 1, value |-> <<"1">>],
                   [id |-> 2, value |-> <<"0","A">>] >>
    [] OTHER -> << [id |-> 1, value |-> <<"1">>],
                   [id |-> 2, value |-> <<"5","5">>],
                   [id |-> 4, value |-> <<"0","0","F","F","0","0">>] >>

(***************************************************************************)
(* Requests a client may send.                                             *)
(***************************************************************************)
Body(n, a, b, c) == [name |-> n, action |-> a, brightness |-> b, color |-> c]

NameInputs ==
  { None, Some(<<>>), Some(<<"l","a","m","p">>), Some(<<"D","E","S","K">>),
    Some(<<"A","t","t","i","c">>) }

ActionInputs ==
  { None, Some(<<>>), Some(<<"O","N">>), Some(<<"o","n">>), Some(<<"O","f","f">>),
    Some(<<"D","I","M">>) }

BrightnessInputs == { None, Some(-1), Some(0), Some(55), Some(100), Some(101), Some(150) }

ColorInputs ==
  { None, Some(<<>>), Some(<<"#","F","F","0","0","0","0">>),
    Some(<<"#","f","f","0","0","a","a">>), Some(<<"#","F","F","F">>),
    Some(<<"F","F","0","0","0","0">>), Some(<<"#">>) }

\* each field is varied over its inputs, the others held; then some combinations
Bodies ==
  { Body(n, Some(<<"O","N">>), None, None) : n \in NameInputs }
  \cup { Body(Some(<<"l","a","m","p">>), a, None, None) : a \in ActionInputs }
  \cup { Body(Some(<<"l","a","m","p">>), None, b, None) : b \in BrightnessInputs }
  \cup { Body(Some(<<"l","a","m","p">>), None, None, c) : c \in ColorInputs }
  \cup { Body(None, None, None, None),
         Body(None, None, Some(101), None),
         Body(Some(<<"L","A","M","P">>), Some(<<"O","N">>), Some(55),
              Some(<<"#","f","f","0","0","a","a">>)),
         Body(None, Some(<<"O","f","f">>), Some(0), Some(<<"#","F","F","F">>)),
         Body(Some(<<"l","a","m","p">>), None, Some(100), Some(<<"#","F","F","0","0","0","0">>)),
         Body(Some(<<"A","t","t","i","c">>), Some(<<"D","I","M">>), Some(150), Some(<<"#">>)) }

GoodHeader == Some(BearerHeader(SECRET_TOKEN))

BadHeaders ==
  { None, Some(<<>>), Some(<<SECRET_TOKEN>>), Some(BearerHeader("GUESS")),
    Some(<<"bearer ", SECRET_TOKEN>>) }

Request(h, b) ==
  [authorization |-> h, name |-> b.name, action |-> b.action,
   brightness |-> b.brightness, color |-> b.color]

Requests ==
  { Request(GoodHeader, b) : b \in Bodies }
  \cup { Request(h, b) : h \in BadHeaders,
         b \in { Body(None, None, None, None),
                 Body(None, Some(<<"O","N">>), None, None),
                 Body(Some(<<"A","t","t","i","c">>), Some(<<"D","I","M">>), Some(150), Some(<<"#">>)) } }

(***************************************************************************)
(* State.                                                                  *)
(***************************************************************************)
VARIABLES
  vendorLights,    \* number of named lights on the vendor account
  light_devices,   \* global light_devices (main.py:47)
  req,             \* the request being handled, None when there is none
  pc,              \* position of the handler
  target_devices,  \* control_lights: target_devices
  threads,         \* control_lights: number of threads created and started
  joined,          \* control_lights: number of threads joined so far
  results,         \* control_lights: results
  wpc,             \* position of each worker thread
  wres,            \* control_device_thread: result of each worker thread
  resp,            \* the response sent for req, None while there is none
  wlog,            \* per device, the writeAction calls made during this request
  vcalls,          \* vendor operations invoked during this request
  served,          \* requests received so far
  refresh,         \* what initialize_hubspace did for req, None until it ran
  get,             \* the last GET exchange since req was received, None before it
  rt_brightness,   \* round trip: the brightness given to the encoding
  rt_hex,          \* round trip: brightness_hex (main.py:169), None until encoded
  rt_read,         \* round trip: what the read of lines 126-128 gives for rt_hex
  spc,             \* hubspace_control.py: position of the main thread
  script_lights,   \* hubspace_control.py: light_devices
  on_threads,      \* hubspace_control.py: state of the ON thread of each light
  off_threads,     \* hubspace_control.py: state of the OFF thread of each light
  script_joined,   \* hubspace_control.py: threads joined in the current loop
  script_log       \* hubspace_control.py: per device, the writeAction calls made

\* the state of the round trip and of the one-shot script, which the server
\* leaves alone
roundTripVars == << rt_brightness, rt_hex, rt_read >>
scriptVars == << spc, script_lights, on_threads, off_threads, script_joined, script_log >>
elsewhere == << roundTripVars, scriptVars >>

serverVars == << vendorLights, light_devices, req, pc, target_devices, threads, joined,
                 results, wpc, wres, resp, wlog, vcalls, served, refresh, get >>

vars == << serverVars, roundTripVars, scriptVars >>

Workers == 1..MaxLights

Running(i) == wpc[i] \notin {"unstarted", "returned", "died"}

\* line 100: name and dev_type and dev_type.lower() == 'light'
IsLight(d) ==
  /\ DevName(d) # <<>>
  /\ DevClass(d) # <<>>
  /\ lower(DevClass(d)) = <<"l","i","g","h","t">>

ServerInit ==
  /\ vendorLights \in 0..MaxLights
  \* startup_event: the server only starts after a successful initialize_hubspace()
  /\ light_devices = SelectSeq(getDevices(vendorLights), IsLight)
  /\ req = None
  /\ pc = "idle"
  /\ target_devices = <<>>
  /\ threads = 0
  /\ joined = 0
  /\ results = <<>>
  /\ wpc = [i \in Workers |-> "unstarted"]
  /\ wres = [i \in Workers |-> None]
  /\ resp = None
  /\ wlog = [d \in DeviceIds |-> <<>>]
  /\ vcalls = {}
  /\ served = 0
  /\ refresh = None
  /\ get = None

\* no round trip under way
RoundTripOff == rt_brightness = 0 /\ rt_hex = None /\ rt_read = None

\* the script is not run
ScriptOff ==
  /\ spc = "off"
  /\ script_lights = <<>>
  /\ on_threads = [i \in Workers |-> "unstarted"]
  /\ off_threads = [i \in Workers |-> "unstarted"]
  /\ script_joined = 0
  /\ script_log = [d \in DeviceIds |-> <<>>]

Init == ServerInit /\ RoundTripOff /\ ScriptOff

(***************************************************************************)
(* HTTP responses.                                                         *)
(***************************************************************************)
\* raise HTTPException(status_code=code, detail=detail), or the framework's own
\* error response
HTTPError(code, detail) ==
  Some([status |-> code, detail |-> detail, success |-> FALSE, results |-> <<>>,
        success_count |-> 0, total_count |-> 0])

\* what the framework answers when the handler lets an exception escape
InternalServerError == HTTPError(500, "Internal Server Error")

\* lines 306-316
ControlResponse(res) ==
  LET success_count == Cardinality({i \in 1..Len(res) : res[i].success})
      total_count == Len(res)
  IN Some([status |-> 200, detail |-> "", success |-> (success_count = total_count),
           results |-> res,
           success_count |-> success_count, total_count |-> total_count])

(***************************************************************************)
(* A client sends POST /control.  The next request is taken up once the    *)
(* threads of the previous one have ended.                                 *)
(***************************************************************************)
\* the handlers declared with def instead of async def: the framework runs each
\* in a thread of its pool, so one may start while another is running
LoopFreeAnyTime == TRUE

\* lines 223-224, 249-250, 320-321: the handlers are coroutines with no await in
\* them, so the event loop runs one at a time, from its first line to its
\* response; it is free when none is running
LoopFree == pc = "idle"

ReceiveFrom(pool) ==
  /\ LoopFree
  /\ served < MaxRequests
  /\ \A i \in Workers : ~Running(i)
  /\ \E r \in pool : req' = Some(r)
  /\ pc' = "verify_token"
  /\ served' = served + 1
  /\ target_devices' = <<>>
  /\ threads' = 0
  /\ joined' = 0
  /\ results' = <<>>
  /\ wpc' = [i \in Workers |-> "unstarted"]
  /\ wres' = [i \in Workers |-> None]
  /\ resp' = None
  /\ wlog' = [d \in DeviceIds |-> <<>>]
  /\ vcalls' = {}
  /\ refresh' = None
  /\ get' = None
  /\ UNCHANGED << elsewhere, vendorLights, light_devices >>

Receive == ReceiveFrom(Requests)

\* verify_token with the test for a missing header inverted: only a header that is
\* present and wrong is refused
TokenOkWhenAbsent(authorization) ==
  ~( ~(IsNone(authorization) \/ Val(authorization) = <<>>)
     /\ Val(authorization) # BearerHeader(SECRET_TOKEN) )

\* verify_token, lines 72-76
TokenOk(authorization) ==
  ~( (IsNone(authorization) \/ Val(authorization) = <<>>)
     \/ Val(authorization) # BearerHeader(SECRET_TOKEN) )

VerifyToken ==
  /\ pc = "verify_token"
  /\ IF TokenOk(Val(req).authorization)
     THEN /\ pc' = "parse_body"
          /\ resp' = resp
     ELSE /\ pc' = "idle"
          /\ resp' = HTTPError(401, "Invalid or missing authorization token")
  /\ UNCHANGED << elsewhere, get, refresh >>
  /\ UNCHANGED << vendorLights, light_devices, req, target_devices, threads, joined,
                  results, wpc, wres, wlog, vcalls, served >>

\* LightControlRequest, line 53: Field(None, ge=0, le=100)
BrightnessFieldOk(brightness) ==
  IsNone(brightness) \/ (Val(brightness) >= 0 /\ Val(brightness) <= 100)

\* the framework validates the body against LightControlRequest before it calls
\* the handler, and answers 422 when a field constraint fails
ParseBody ==
  /\ pc = "parse_body"
  /\ IF BrightnessFieldOk(Val(req).brightness)
     THEN /\ pc' = "initialize"
          /\ resp' = resp
     ELSE /\ pc' = "idle"
          /\ resp' = HTTPError(422, "Unprocessable Entity")
  /\ UNCHANGED << elsewhere, get, refresh >>
  /\ UNCHANGED << vendorLights, light_devices, req, target_devices, threads, joined,
                  results, wpc, wres, wlog, vcalls, served >>

(***************************************************************************)
(* initialize_hubspace, lines 79-112.  The vendor may raise when the       *)
(* client is created (line 88), when the devices are listed (line 91) or   *)
(* when the k-th listed device is asked its name or class (lines 97-98).   *)
(***************************************************************************)
FailPoints(n) ==
  { [at |-> "none", k |-> 0], [at |-> "Hubspace", k |-> 0], [at |-> "getDevices", k |-> 0] }
  \cup { [at |-> "device", k |-> k] : k \in 1..Len(getDevices(n)) }

\* initialize_hubspace with return True in its except block: the failure is logged
\* and lost
initialize_hubspaceUnchecked(old, n, f) ==
  LET all_devices == getDevices(n) IN
  CASE f.at = "Hubspace" ->
         [ok |-> TRUE, light_devices |-> old, calls |-> {"Hubspace"}]
    [] f.at = "getDevices" ->
         [ok |-> TRUE, light_devices |-> old, calls |-> {"Hubspace", "getDevices"}]
    [] f.at = "device" ->
         [ok |-> TRUE,
          light_devices |-> SelectSeq(SubSeq(all_devices, 1, f.k - 1), IsLight),
          calls |-> {"Hubspace", "getDevices", "getName", "getDeviceClass"}]
    [] OTHER ->
         [ok |-> TRUE, light_devices |-> SelectSeq(all_devices, IsLight),
          calls |-> {"Hubspace", "getDevices", "getName", "getDeviceClass"}]

initialize_hubspace(old, n, f) ==
  LET all_devices == getDevices(n) IN
  CASE f.at = "Hubspace" ->
         [ok |-> FALSE, light_devices |-> old, calls |-> {"Hubspace"}]
    [] f.at = "getDevices" ->
         [ok |-> FALSE, light_devices |-> old, calls |-> {"Hubspace", "getDevices"}]
    [] f.at = "device" ->
         \* line 95 has emptied the list; the devices before the k-th were filtered
         [ok |-> FALSE,
          light_devices |-> SelectSeq(SubSeq(all_devices, 1, f.k - 1), IsLight),
          calls |-> {"Hubspace", "getDevices", "getName", "getDeviceClass"}]
    [] OTHER ->
         [ok |-> TRUE, light_devices |-> SelectSeq(all_devices, IsLight),
          calls |-> {"Hubspace", "getDevices", "getName", "getDeviceClass"}]

\* control_lights, lines 258-261
Initialize ==
  /\ pc = "initialize"
  /\ \E f \in FailPoints(vendorLights) :
       LET out == initialize_hubspace(light_devices, vendorLights, f) IN
       /\ light_devices' = out.light_devices
       /\ refresh' = Some([at |-> f.at, light_devices |-> out.light_devices])
       /\ vcalls' = vcalls \cup out.calls
       /\ IF out.ok
          THEN /\ pc' = "validate"
               /\ resp' = resp
          ELSE /\ pc' = "idle"
               /\ resp' = HTTPError(500, "Failed to authenticate with Hubspace")
  /\ UNCHANGED << elsewhere, get, vendorLights, req, target_devices, threads, joined,
                  results, wpc, wres, wlog, served >>

\* control_lights, lines 266-276: the detail of the first check that raises 400,
\* "" when none does
ValidationError(r) ==
  IF ~(Truthy(r.action) \/ ~IsNone(r.brightness) \/ Truthy(r.color))
    THEN "At least one control parameter must be specified"
  ELSE IF Truthy(r.action) /\ upper(Val(r.action)) \notin {<<"O","N">>, <<"O","F","F">>}
    THEN "Action must be 'ON' or 'OFF'"
  ELSE IF ~IsNone(r.brightness) /\ (Val(r.brightness) < 0 \/ Val(r.brightness) > 100)
    THEN "Brightness must be between 0 and 100"
  ELSE IF Truthy(r.color) /\ ~startswith(Val(r.color), "#")
    THEN "Color must be in hex format"
  ELSE ""

Validate ==
  /\ pc = "validate"
  /\ IF ValidationError(Val(req)) = ""
     THEN /\ pc' = "resolve"
          /\ resp' = resp
     ELSE /\ pc' = "idle"
          /\ resp' = HTTPError(400, ValidationError(Val(req)))
  /\ UNCHANGED << elsewhere, get, refresh >>
  /\ UNCHANGED << vendorLights, light_devices, req, target_devices, threads, joined,
                  results, wpc, wres, wlog, vcalls, served >>

\* line 281 without the two lower() calls: d.getName() == request.name
NameMatchesExactly(d, name) == DevName(d) = name

\* line 281: d.getName().lower() == request.name.lower()
NameMatches(d, name) == lower(DevName(d)) = lower(name)

\* control_lights, lines 279-283, when no getName call raises
FilterByName(devices, name) ==
  IF Truthy(name)
  THEN SelectSeq(devices, LAMBDA d : NameMatches(d, Val(name)))
  ELSE devices

Resolve ==
  /\ pc = "resolve"
  /\ \/ LET targets == FilterByName(light_devices, Val(req).name) IN
        /\ target_devices' = targets
        /\ vcalls' = IF Truthy(Val(req).name) /\ light_devices # <<>>
                     THEN vcalls \cup {"getName"} ELSE vcalls
        /\ IF Truthy(Val(req).name) /\ targets = <<>>
           THEN /\ pc' = "idle"
                /\ resp' = HTTPError(404, "No light found with name")
           ELSE /\ pc' = "dispatch"
                /\ resp' = resp
     \/ \* a getName call of the list comprehension raises: unhandled, 500
        /\ Truthy(Val(req).name)
        /\ light_devices # <<>>
        /\ vcalls' = vcalls \cup {"getName"}
        /\ target_devices' = target_devices
        /\ pc' = "idle"
        /\ resp' = InternalServerError
  /\ UNCHANGED << elsewhere, get, refresh >>
  /\ UNCHANGED << vendorLights, light_devices, req, threads, joined, results,
                  wpc, wres, wlog, served >>

\* control_lights, lines 291-299: one pass of the loop
Launch ==
  /\ pc = "dispatch"
  /\ threads < Len(target_devices)
  /\ vcalls' = vcalls \cup {"getName"}
  /\ \/ \* line 292 prints the name, lines 293-299 start the thread
        /\ threads' = threads + 1
        /\ wpc' = [wpc EXCEPT ![threads + 1] = "begin"]
        /\ UNCHANGED << pc, resp >>
     \/ \* getName raises on line 292: unhandled, 500; started threads run on
        /\ pc' = "idle"
        /\ resp' = InternalServerError
        /\ UNCHANGED << threads, wpc >>
  /\ UNCHANGED << elsewhere, get, refresh >>
  /\ UNCHANGED << vendorLights, light_devices, req, target_devices, joined, results,
                  wres, wlog, served >>

\* a join that does not wait: it returns as soon as the thread was started
JoinReturnsAtOnce(i) == wpc[i] # "unstarted"

\* thread.join(timeout): it returns when the timeout has passed, the thread
\* ended or not
JoinTimesOut(i) == TRUE

\* thread.join() returns once the thread has ended, normally or by an exception
JoinReturns(i) == wpc[i] \in {"returned", "died"}

\* control_lights, lines 302-303: one pass of the loop
Join ==
  /\ pc = "dispatch"
  /\ threads = Len(target_devices)
  /\ joined < threads
  /\ JoinReturns(joined + 1)
  /\ joined' = joined + 1
  /\ UNCHANGED << elsewhere, get, refresh >>
  /\ UNCHANGED << vendorLights, light_devices, req, pc, target_devices, threads,
                  results, wpc, wres, resp, wlog, vcalls, served >>

\* control_lights, lines 306-318
Respond ==
  /\ pc = "dispatch"
  /\ threads = Len(target_devices)
  /\ joined = threads
  /\ resp' = ControlResponse(results)
  /\ pc' = "idle"
  /\ UNCHANGED << elsewhere, get, refresh >>
  /\ UNCHANGED << vendorLights, light_devices, req, target_devices, threads, joined,
                  results, wpc, wres, wlog, vcalls, served >>

(***************************************************************************)
(* The worker threads: control_device_thread, lines 140-189, run by the    *)
(* lambda of lines 294-296, which appends the returned result to results.  *)
(***************************************************************************)
\* lines 144-149
DeviceResult(d) ==
  [name |-> DevName(d), device_id |-> d, success |-> FALSE, message |-> "",
   power_state |-> None, brightness |-> None, color |-> None]

\* next((attr for attr in attributes if attr['id'] == id), None)
FindAttr(attributes, id) ==
  LET hits == SelectSeq(attributes, LAMBDA attr : attr.id = id)
  IN IF hits = <<>> THEN None ELSE Some(Head(hits))

NoAttrs == [power |-> None, brightness |-> None, color |-> None]

\* get_device_attributes, lines 116-138, applied to what getAttributes returned;
\* the .get() of lines 154-156 gives None for a missing key
get_device_attributes(attributes) ==
  LET power_attr == FindAttr(attributes, 1)
      brightness_attr == FindAttr(attributes, 2)
      color_attr == FindAttr(attributes, 4)
  IN IF ~IsNone(brightness_attr) /\ IsNone(ParseInt(Val(brightness_attr).value))
     THEN NoAttrs   \* int() raises ValueError, caught on line 136
     ELSE [power |-> IF IsNone(power_attr) THEN None
                     ELSE IF Val(power_attr).value = <<"1">> THEN Some("ON")
                     ELSE Some("OFF"),
           brightness |-> IF IsNone(brightness_attr) THEN None
                          ELSE ParseInt(Val(brightness_attr).value),
           color |-> IF IsNone(color_attr) THEN None
                     ELSE Some(<<"#">> \o Val(color_attr).value)]

\* the stage a worker goes to after the brightness block, lines 174-182
AfterBrightness(r) == IF Truthy(r.color) THEN "color" ELSE "finish"

\* the stage a worker goes to after the power block, lines 167-172
AfterPower(r) == IF ~IsNone(r.brightness) THEN "brightness" ELSE AfterBrightness(r)

\* the power block left out: the worker goes on as if no action were requested
AfterAttrsSkipPower(r) == IF ~IsNone(r.brightness) THEN "brightness" ELSE AfterBrightness(r)

\* the stage a worker goes to after reading the attributes, lines 158-165
AfterAttrs(r) == IF Truthy(r.action) THEN "power" ELSE AfterPower(r)

\* lines 142-149
WorkerBegin(i) ==
  /\ wpc[i] = "begin"
  /\ vcalls' = vcalls \cup {"getName", "getID"}
  /\ \/ /\ wres' = [wres EXCEPT ![i] = Some(DeviceResult(target_devices[i]))]
        /\ wpc' = [wpc EXCEPT ![i] = "attrs"]
     \/ \* getName or getID raises outside the try: the thread dies
        /\ wpc' = [wpc EXCEPT ![i] = "died"]
        /\ wres' = wres
  /\ UNCHANGED << elsewhere, get, refresh >>
  /\ UNCHANGED << vendorLights, light_devices, req, pc, target_devices, threads,
                  joined, results, resp, wlog, served >>

\* the except block loses the error: the worker goes on to report success
WorkerExceptSwallowed(i) ==
  /\ wres' = wres
  /\ results' = results
  /\ wpc' = [wpc EXCEPT ![i] = "finish"]

\* lines 185-189 and the append of line 294
WorkerExcept(i) ==
  LET result == [Val(wres[i]) EXCEPT !.message = "Error controlling", !.success = FALSE]
  IN /\ wres' = [wres EXCEPT ![i] = Some(result)]
     /\ results' = Append(results, result)
     /\ wpc' = [wpc EXCEPT ![i] = "returned"]

\* lines 153-156
WorkerGetAttrs(i) ==
  /\ wpc[i] = "attrs"
  /\ vcalls' = vcalls \cup {"getAttributes"}
  /\ \/ /\ \E attrs \in {get_device_attributes(getAttributes(target_devices[i])),
                           NoAttrs} :
             \* NoAttrs: getAttributes raises, line 137 prints the name, {} is returned
             wres' = [wres EXCEPT ![i] =
                        Some([Val(wres[i]) EXCEPT !.power_state = attrs.power,
                                                  !.brightness = attrs.brightness,
                                                  !.color = attrs.color])]
        /\ wpc' = [wpc EXCEPT ![i] = AfterAttrs(Val(req))]
        /\ results' = results
     \/ \* getAttributes raises and then getName raises on line 137
        WorkerExcept(i)
  /\ UNCHANGED << elsewhere, get, refresh >>
  /\ UNCHANGED << vendorLights, light_devices, req, pc, target_devices, threads,
                  joined, resp, wlog, served >>

\* device.writeAction(id, value): the call is logged with its outcome
writeAction(d, id, value, ok) ==
  wlog' = [wlog EXCEPT ![d] = Append(@, [id |-> id, value |-> value, ok |-> ok])]

\* lines 159-165
PowerValue(action) ==
  IF upper(action) = <<"O","N">> THEN <<"0","1">> ELSE <<"0","0">>

WorkerPower(i) ==
  /\ wpc[i] = "power"
  /\ vcalls' = vcalls \cup {"writeAction"}
  /\ LET action == Val(Val(req).action) IN
     \E ok \in BOOLEAN :
       /\ writeAction(target_devices[i], 1, PowerValue(action), ok)
       /\ IF ok
          THEN /\ wres' = [wres EXCEPT ![i] =
                             Some([Val(wres[i]) EXCEPT !.power_state =
                                     IF upper(action) = <<"O","N">>
                                     THEN Some("ON") ELSE Some("OFF")])]
               /\ wpc' = [wpc EXCEPT ![i] = AfterPower(Val(req))]
               /\ results' = results
          ELSE WorkerExcept(i)
  /\ UNCHANGED << elsewhere, get, refresh >>
  /\ UNCHANGED << vendorLights, light_devices, req, pc, target_devices, threads,
                  joined, resp, served >>

\* lines 168-172
WorkerBrightness(i) ==
  /\ wpc[i] = "brightness"
  /\ vcalls' = vcalls \cup {"writeAction"}
  /\ LET brightness == Val(Val(req).brightness) IN
     \E ok \in BOOLEAN :
       /\ writeAction(target_devices[i], 2, FormatHex02(brightness), ok)
       /\ IF ok
          THEN /\ wres' = [wres EXCEPT ![i] =
                             Some([Val(wres[i]) EXCEPT !.brightness = Some(brightness)])]
               /\ wpc' = [wpc EXCEPT ![i] = AfterBrightness(Val(req))]
               /\ results' = results
          ELSE WorkerExcept(i)
  /\ UNCHANGED << elsewhere, get, refresh >>
  /\ UNCHANGED << vendorLights, light_devices, req, pc, target_devices, threads,
                  joined, resp, served >>

\* line 177
ColorClean(color) == upper(replace(color, "#"))

\* line 178
ColorWritable(color) == Len(ColorClean(color)) = 6

\* lines 175-180
WorkerColor(i) ==
  /\ wpc[i] = "color"
  /\ LET color_clean == ColorClean(Val(Val(req).color)) IN
     IF ColorWritable(Val(Val(req).color))
     THEN /\ vcalls' = vcalls \cup {"writeAction"}
          /\ \E ok \in BOOLEAN :
               /\ writeAction(target_devices[i], 4, color_clean, ok)
               /\ IF ok
                  THEN /\ wres' = [wres EXCEPT ![i] =
                                     Some([Val(wres[i]) EXCEPT !.color =
                                             Some(<<"#">> \o color_clean)])]
                       /\ wpc' = [wpc EXCEPT ![i] = "finish"]
                       /\ results' = results
                  ELSE WorkerExcept(i)
     ELSE /\ wpc' = [wpc EXCEPT ![i] = "finish"]
          /\ UNCHANGED << wres, results, wlog, vcalls >>
  /\ UNCHANGED << elsewhere, get, refresh >>
  /\ UNCHANGED << vendorLights, light_devices, req, pc, target_devices, threads,
                  joined, resp, served >>

\* lines 182-183, 189 and the append of line 294
WorkerFinish(i) ==
  /\ wpc[i] = "finish"
  /\ LET result == [Val(wres[i]) EXCEPT !.success = TRUE,
                                        !.message = "Successfully controlled"]
     IN /\ wres' = [wres EXCEPT ![i] = Some(result)]
        /\ results' = Append(results, result)
        /\ wpc' = [wpc EXCEPT ![i] = "returned"]
  /\ UNCHANGED << elsewhere, get, refresh >>
  /\ UNCHANGED << vendorLights, light_devices, req, pc, target_devices, threads,
                  joined, resp, wlog, vcalls, served >>

Worker(i) ==
  \/ WorkerBegin(i)
  \/ WorkerGetAttrs(i)
  \/ WorkerPower(i)
  \/ WorkerBrightness(i)
  \/ WorkerColor(i)
  \/ WorkerFinish(i)

Next ==
  \/ Receive
  \/ VerifyToken
  \/ ParseBody
  \/ Initialize
  \/ Validate
  \/ Resolve
  \/ Launch
  \/ Join
  \/ Respond
  \/ \E i \in Workers : Worker(i)

Spec == Init /\ [][Next]_vars

(***************************************************************************)
(* The whole server: POST /control with GET /lights and GET /health.  A    *)
(* GET handler runs from its first line to its response in one step of the *)
(* event loop; threads of an earlier /control request that were never      *)
(* joined (line 292) may still be running then.                            *)
(***************************************************************************)
ServerRequests ==
  { Request(GoodHeader, Body(Some(<<"L","A","M","P">>), Some(<<"O","N">>), None, None)),
    Request(GoodHeader, Body(Some(<<"l","a","m","p">>), Some(<<"o","n">>), Some(55),
                             Some(<<"#","f","f","0","0","a","a">>))),
    Request(GoodHeader, Body(Some(<<"A","t","t","i","c">>), None, Some(0), None)),
    Request(None, Body(None, Some(<<"O","N">>), None, None)) }

ReceiveControl == ReceiveFrom(ServerRequests)

\* the exchange of a GET handler: its route, what its initialize_hubspace did, the
\* vendor operations it invoked and its response
GetExchange(route, f, out, calls, response) ==
  Some([route |-> route,
        refresh |-> [at |-> f.at, light_devices |-> out.light_devices],
        calls |-> calls,
        resp |-> response])

\* lines 233-242: the entry of one light, from what get_device_attributes gave
LightEntry(d, attrs) ==
  [name |-> DevName(d), id |-> d,
   power |-> IF IsNone(attrs.power) THEN Some("UNKNOWN") ELSE attrs.power,
   brightness |-> attrs.brightness,
   color |-> attrs.color]

\* GET /lights, lines 223-247
get_lights ==
  /\ LoopFree
  /\ served < MaxRequests
  /\ served' = served + 1
  /\ \E f \in FailPoints(vendorLights) :
       LET out == initialize_hubspace(light_devices, vendorLights, f)
           lights == out.light_devices
           reads == out.calls \cup {"getAttributes", "getName", "getID"}
       IN
       /\ light_devices' = lights
       /\ IF ~out.ok
          THEN get' = GetExchange("/lights", f, out, out.calls,
                        Val(HTTPError(500, "Failed to authenticate with Hubspace")))
          ELSE IF lights = <<>>
          THEN get' = GetExchange("/lights", f, out, out.calls,
                        [status |-> 200, detail |-> "", lights |-> <<>>, count |-> 0])
          ELSE \/ \* getAttributes raises for the lights of unread: {} is returned
                  \E unread \in SUBSET {lights[k] : k \in 1..Len(lights)} :
                    get' = GetExchange("/lights", f, out, reads,
                             [status |-> 200, detail |-> "",
                              lights |-> [k \in 1..Len(lights) |->
                                            LightEntry(lights[k],
                                              IF lights[k] \in unread THEN NoAttrs
                                              ELSE get_device_attributes(
                                                     getAttributes(lights[k])))],
                              count |-> Len(lights)])
               \/ \* getName raises on line 137 or 237, or getID on line 238
                  get' = GetExchange("/lights", f, out, reads, Val(InternalServerError))
  /\ UNCHANGED << elsewhere, vendorLights, req, pc, target_devices, threads, joined,
                  results, wpc, wres, resp, wlog, vcalls, refresh >>

\* GET /health, lines 320-334
health_check ==
  /\ LoopFree
  /\ served < MaxRequests
  /\ served' = served + 1
  /\ \E f \in FailPoints(vendorLights) :
       LET out == initialize_hubspace(light_devices, vendorLights, f) IN
       /\ light_devices' = out.light_devices
       /\ get' = GetExchange("/health", f, out, out.calls,
                   [status |-> 200, detail |-> "", hubspace_connected |-> out.ok,
                    lights_available |-> Len(out.light_devices)])
  /\ UNCHANGED << elsewhere, vendorLights, req, pc, target_devices, threads, joined,
                  results, wpc, wres, resp, wlog, vcalls, refresh >>

NextServer ==
  \/ ReceiveControl
  \/ VerifyToken
  \/ ParseBody
  \/ Initialize
  \/ Validate
  \/ Resolve
  \/ Launch
  \/ Join
  \/ Respond
  \/ \E i \in Workers : Worker(i)
  \/ get_lights
  \/ health_check

SpecServer == Init /\ [][NextServer]_vars

(***************************************************************************)
(* Fair scheduling of the handler.  The handler of a request runs on the   *)
(* event loop thread, which the operating system keeps scheduling, so a    *)
(* handler step that stays possible is taken.  Nothing is assumed of the   *)
(* worker threads: each of their steps is, or follows, a call to the       *)
(* vendor, which may never return.                                         *)
(***************************************************************************)
Handler ==
  \/ VerifyToken
  \/ ParseBody
  \/ Initialize
  \/ Validate
  \/ Resolve
  \/ Launch
  \/ Join
  \/ Respond

SpecLive == Init /\ [][NextServer]_vars /\ WF_vars(Handler)

(***************************************************************************)
(* The brightness round trip.  A brightness b is written to attribute 2 as *)
(* control_device_thread encodes it (lines 168-170) and the value the      *)
(* device then holds is read back as get_device_attributes decodes it      *)
(* (lines 125-128).                                                        *)
(***************************************************************************)
\* line 53: the largest brightness the request model admits
MaxBrightness == 100

InitRoundTrip ==
  /\ ServerInit
  /\ vendorLights = 0
  /\ ScriptOff
  /\ rt_brightness \in 0..MaxBrightness
  /\ rt_hex = None
  /\ rt_read = None

\* lines 169-170: brightness_hex = f"{brightness:02X}"; writeAction(2, brightness_hex)
EncodeBrightness ==
  /\ rt_hex = None
  /\ rt_hex' = Some(FormatHex02(rt_brightness))
  /\ UNCHANGED << serverVars, scriptVars, rt_brightness, rt_read >>

\* lines 125-128 and 154: attrs.get('brightness') for a device whose attribute 2
\* holds rt_hex; None when int() raised and {} was returned
DecodeBrightness ==
  /\ rt_hex # None
  /\ rt_read = None
  /\ rt_read' =
       Some(get_device_attributes(<< [id |-> 2, value |-> Val(rt_hex)] >>).brightness)
  /\ UNCHANGED << serverVars, scriptVars, rt_brightness, rt_hex >>

NextRoundTrip == EncodeBrightness \/ DecodeBrightness

SpecRoundTrip == InitRoundTrip /\ [][NextRoundTrip]_vars

(***************************************************************************)
(* The one-shot script hubspace_control.py: it lists the account, turns    *)
(* every light ON with one thread per light, joins them, sleeps, turns     *)
(* every light OFF the same way and prints the states.  Its vendor calls   *)
(* may raise as those of the server do.                                    *)
(***************************************************************************)
InitScript ==
  /\ ServerInit
  /\ RoundTripOff
  /\ spc = "start"
  /\ script_lights = <<>>
  /\ on_threads = [i \in Workers |-> "unstarted"]
  /\ off_threads = [i \in Workers |-> "unstarted"]
  /\ script_joined = 0
  /\ script_log = [d \in DeviceIds |-> <<>>]

\* the number of threads of a phase that were started
Started(phase_threads) == Cardinality({i \in Workers : phase_threads[i] # "unstarted"})

\* hubspace_control.py line 27, outside the try: a raise ends the script
ScriptCreateClient ==
  /\ spc = "start"
  /\ spc' \in {"list", "crashed"}
  /\ UNCHANGED << serverVars, roundTripVars, script_lights, on_threads, off_threads,
                  script_joined, script_log >>

\* hubspace_control.py lines 46-72
ScriptList ==
  /\ spc = "list"
  /\ \E f \in {g \in FailPoints(vendorLights) : g.at # "Hubspace"} :
       LET lights == SelectSeq(getDevices(vendorLights), IsLight) IN
       IF f.at # "none"
       THEN \* getDevices, getName, getID or getDeviceClass raises: line 125
            spc' = "error" /\ script_lights' = script_lights
       ELSE IF lights = <<>>
       THEN \* lines 68-70: exit(1)
            spc' = "exited" /\ script_lights' = script_lights
       ELSE spc' = "on_start" /\ script_lights' = lights
  /\ UNCHANGED << serverVars, roundTripVars, on_threads, off_threads, script_joined,
                  script_log >>

\* hubspace_control.py lines 77-83: one pass of the loop
ScriptStartOn ==
  /\ spc = "on_start"
  /\ LET k == Started(on_threads) + 1 IN
     \/ /\ on_threads' = [on_threads EXCEPT ![k] = "running"]
        /\ spc' = IF k = Len(script_lights) THEN "on_join" ELSE "on_start"
     \/ \* getName raises on line 80: line 125; the started threads run on
        /\ spc' = "error"
        /\ on_threads' = on_threads
  /\ UNCHANGED << serverVars, roundTripVars, script_lights, off_threads, script_joined,
                  script_log >>

\* the join of lines 86-87 left out
ScriptJoinSkipped(phase_threads, i) == TRUE

\* thread.join() returns once the thread has ended
ScriptJoinReturns(phase_threads, i) == phase_threads[i] = "ended"

\* hubspace_control.py lines 86-91: one pass of the loop; after the last, the
\* sleep and line 95
ScriptJoinOn ==
  /\ spc = "on_join"
  /\ ScriptJoinReturns(on_threads, script_joined + 1)
  /\ IF script_joined + 1 = Len(script_lights)
     THEN spc' = "off_start" /\ script_joined' = 0
     ELSE spc' = spc /\ script_joined' = script_joined + 1
  /\ UNCHANGED << serverVars, roundTripVars, script_lights, on_threads, off_threads,
                  script_log >>

\* hubspace_control.py lines 96-102: one pass of the loop
ScriptStartOff ==
  /\ spc = "off_start"
  /\ LET k == Started(off_threads) + 1 IN
     \/ /\ off_threads' = [off_threads EXCEPT ![k] = "running"]
        /\ spc' = IF k = Len(script_lights) THEN "off_join" ELSE "off_start"
     \/ \* getName raises on line 99: line 125; the started threads run on
        /\ spc' = "error"
        /\ off_threads' = off_threads
  /\ UNCHANGED << serverVars, roundTripVars, script_lights, on_threads, script_joined,
                  script_log >>

\* hubspace_control.py lines 105-106: one pass of the loop
ScriptJoinOff ==
  /\ spc = "off_join"
  /\ ScriptJoinReturns(off_threads, script_joined + 1)
  /\ IF script_joined + 1 = Len(script_lights)
     THEN spc' = "states" /\ script_joined' = 0
     ELSE spc' = spc /\ script_joined' = script_joined + 1
  /\ UNCHANGED << serverVars, roundTripVars, script_lights, on_threads, off_threads,
                  script_log >>

\* hubspace_control.py lines 110-123: every read is in a try of its own, but the
\* except block of line 121 calls getName, which may raise: line 125
ScriptStates ==
  /\ spc = "states"
  /\ spc' \in {"completed", "error"}
  /\ UNCHANGED << serverVars, roundTripVars, script_lights, on_threads, off_threads,
                  script_joined, script_log >>

\* hubspace_control.py lines 32-36
ScriptPowerValue(power_state) ==
  IF power_state = "ON" THEN <<"0","1">> ELSE <<"0","0">>

\* control_device, hubspace_control.py lines 29-41: the write raises or not, and
\* the thread ends in both cases
control_device(d, power_state) ==
  \E ok \in BOOLEAN :
    script_log' = [script_log EXCEPT ![d] =
                     Append(@, [id |-> 1, value |-> ScriptPowerValue(power_state),
                                ok |-> ok])]

OnWorker(i) ==
  /\ on_threads[i] = "running"
  /\ control_device(script_lights[i], "ON")
  /\ on_threads' = [on_threads EXCEPT ![i] = "ended"]
  /\ UNCHANGED << serverVars, roundTripVars, spc, script_lights, off_threads,
                  script_joined >>

OffWorker(i) ==
  /\ off_threads[i] = "running"
  /\ control_device(script_lights[i], "OFF")
  /\ off_threads' = [off_threads EXCEPT ![i] = "ended"]
  /\ UNCHANGED << serverVars, roundTripVars, spc, script_lights, on_threads,
                  script_joined >>

NextScript ==
  \/ ScriptCreateClient
  \/ ScriptList
  \/ ScriptStartOn
  \/ ScriptJoinOn
  \/ ScriptStartOff
  \/ ScriptJoinOff
  \/ ScriptStates
  \/ \E i \in Workers : OnWorker(i)
  \/ \E i \in Workers : OffWorker(i)

SpecScript == InitScript /\ [][NextScript]_vars

(***************************************************************************)
(* Vocabulary of the properties.                                           *)
(***************************************************************************)
Authorized == req # None /\ Val(req).authorization = Some(<<"Bearer ", "SECRET123">>)

Answered == pc = "idle" /\ req # None /\ resp # None

Responded200 == Answered /\ Val(resp).status = 200

\* the attribute ids the request asks to change, in the order power, brightness, color
RequestedIds ==
  (IF Truthy(Val(req).action) THEN <<1>> ELSE <<>>)
  \o (IF ~IsNone(Val(req).brightness) THEN <<2>> ELSE <<>>)
  \o (IF Truthy(Val(req).color) THEN <<4>> ELSE <<>>)

\* the attribute ids written to device d with success, in the order of the calls
WrittenIds(d) ==
  LET done == SelectSeq(wlog[d], LAMBDA w : w.ok)
  IN [k \in 1..Len(done) |-> done[k].id]

WriteRaised(d) == \E k \in 1..Len(wlog[d]) : ~wlog[d][k].ok

\* the results of the response that are about device d
ResultsOf(d) ==
  {j \in 1..Len(Val(resp).results) : Val(resp).results[j].device_id = d}

Targets == {target_devices[i] : i \in 1..Len(target_devices)}

(***************************************************************************)
(* C1: a /control response that went through dispatch with N target        *)
(* devices lists exactly N results, exactly one for each target device,    *)
(* whichever vendor calls failed on the devices.                           *)
(***************************************************************************)
C1_OneResultPerTarget ==
  Responded200 =>
    /\ Len(Val(resp).results) = Len(target_devices)
    /\ \A d \in Targets : Cardinality(ResultsOf(d)) = 1

(***************************************************************************)
(* C2: in every interleaving of the workers, the i-th result of the        *)
(* response is the result of the i-th target device.  Stated for the       *)
(* responses that hold a result for every target, so that a violation is   *)
(* one of order alone.                                                     *)
(***************************************************************************)
C2_ResultsInTargetOrder ==
  (Responded200 /\ Len(Val(resp).results) = Len(target_devices)) =>
    \A i \in 1..Len(target_devices) :
      Val(resp).results[i].device_id = target_devices[i]

(***************************************************************************)
(* C3: join before respond.  When the ControlResponse of a request exists, *)
(* a thread was started for every target and every one of them has ended:  *)
(* no worker is running and no write of the request is still to come.      *)
(***************************************************************************)
C3_JoinBeforeRespond ==
  Responded200 =>
    /\ threads = Len(target_devices)
    /\ \A i \in 1..threads : wpc[i] \in {"returned", "died"}
    /\ \A i \in Workers : i > threads => wpc[i] = "unstarted"

C3_Witness ==
  /\ Responded200
  /\ Len(target_devices) >= 2
  /\ Len(Val(resp).results) >= 2
  /\ \E d \in Targets : wlog[d] # <<>>

(***************************************************************************)
(* C4: per-device failure isolation.  When the only vendor failures of a   *)
(* dispatch are writes that raise, on the set F of devices, then exactly   *)
(* the devices of F have success=false with the error in their message,    *)
(* the others have success=true with every requested write issued, the     *)
(* status is 200 and the endpoint-level success is false when F is not     *)
(* empty.                                                                  *)
(***************************************************************************)
\* worker i failed on a vendor call that is not a write
OtherFailure(i) ==
  \/ wpc[i] = "died"
  \/ /\ wpc[i] = "returned"
     /\ ~Val(wres[i]).success
     /\ ~WriteRaised(target_devices[i])

C4_FailureIsolation ==
  ( /\ Responded200
    /\ \A i \in 1..Len(target_devices) : ~OtherFailure(i)
    /\ \E d \in Targets : WriteRaised(d) ) =>
    /\ \A i \in 1..Len(target_devices) :
         LET d == target_devices[i] IN
         /\ Cardinality(ResultsOf(d)) = 1
         /\ \A j \in ResultsOf(d) :
              IF WriteRaised(d)
              THEN /\ ~Val(resp).results[j].success
                   /\ Val(resp).results[j].message = "Error controlling"
              ELSE /\ Val(resp).results[j].success
                   /\ WrittenIds(d) = RequestedIds
    /\ ~Val(resp).success

(***************************************************************************)
(* C5: the aggregate success of the ControlResponse is true if and only if *)
(* the unit of work of every target device succeeded; a unit of work that  *)
(* failed before its result was recorded makes it false too.               *)
(***************************************************************************)
C5_AggregateSuccess ==
  Responded200 =>
    (Val(resp).success <=>
       \A i \in 1..Len(target_devices) :
         wpc[i] = "returned" /\ Val(wres[i]).success)

(***************************************************************************)
(* C6: a request whose Authorization header is missing or is not           *)
(* "Bearer <SECRET_TOKEN>" is answered 401, and while it is handled no     *)
(* vendor operation is invoked, no thread is started and nothing is        *)
(* written.                                                                *)
(***************************************************************************)
C6_UnauthorizedTouchesNothing ==
  (req # None /\ ~Authorized) =>
    /\ vcalls = {}
    /\ threads = 0
    /\ \A d \in DeviceIds : wlog[d] = <<>>
    /\ pc \in {"verify_token", "idle"}
    /\ pc = "idle" => (resp # None /\ Val(resp).status = 401)

C6_Witness ==
  /\ Answered
  /\ Val(req).authorization = Some(<<"SECRET123">>)
  /\ Val(resp).status = 401
  /\ Truthy(Val(req).action)

(***************************************************************************)
(* C7: an authorized request that specifies none of action, brightness and *)
(* color is answered 400 in every state of the vendor service.             *)
(***************************************************************************)
C7_EmptyBodyIs400 ==
  ( /\ Answered
    /\ Authorized
    /\ ~Truthy(Val(req).action)
    /\ IsNone(Val(req).brightness)
    /\ ~Truthy(Val(req).color) ) =>
    Val(resp).status = 400

(***************************************************************************)
(* C8: an authorized request whose brightness is outside [0,100] is        *)
(* answered 400, and a brightness inside [0,100], 0 and 100 included, is   *)
(* not rejected.                                                           *)
(***************************************************************************)
C8_BrightnessRange ==
  (Answered /\ Authorized /\ ~IsNone(Val(req).brightness)) =>
    IF Val(Val(req).brightness) < 0 \/ Val(Val(req).brightness) > 100
    THEN Val(resp).status = 400
    ELSE /\ Val(resp).status # 422
         /\ Val(resp).detail # "Brightness must be between 0 and 100"

(***************************************************************************)
(* C9: name resolution, for an authorized and valid request after a        *)
(* successful refresh.  With a name filter that no light's name equals     *)
(* case-insensitively the response is 404 and nothing is dispatched;       *)
(* otherwise the dispatched targets are exactly the lights whose name      *)
(* matches case-insensitively, all of them and no device of another class. *)
(* Without a name filter the targets are all the lights.                   *)
(***************************************************************************)
\* the lights of the vendor account that the request names, in listing order
C9_Matching ==
  SelectSeq(getDevices(vendorLights),
            LAMBDA d : /\ DevName(d) # <<>>
                       /\ lower(DevClass(d)) = <<"l","i","g","h","t">>
                       /\ Truthy(Val(req).name) =>
                            lower(DevName(d)) = lower(Val(Val(req).name)))

\* the request was authorized, refreshed the device list and passed validation
C9_Resolved ==
  /\ Answered
  /\ Authorized
  /\ Val(resp).status \notin {422, 400}
  /\ Val(resp).detail # "Failed to authenticate with Hubspace"

C9_NothingDispatched == threads = 0 /\ \A d \in DeviceIds : wlog[d] = <<>>

C9_AllDispatched == target_devices = C9_Matching /\ threads = Len(C9_Matching)

C10_SuccessMeansAllWritten ==
  \A j \in 1..Len(results) :
    results[j].success => WrittenIds(results[j].device_id) = RequestedIds

(***************************************************************************)
(* C11: brightness round trip.  For every integer b in [0,100], decoding   *)
(* as the read of attribute 2 does the two-digit uppercase hex string that *)
(* the write of attribute 2 produces for b gives b again.                  *)
(***************************************************************************)
C11_RoundTrip == rt_read # None => Val(rt_read) = Some(rt_brightness)

(***************************************************************************)
(* C12: when the request asks for action ON alone, with no brightness and  *)
(* no color, every DeviceResult with success=true has power_state "ON",    *)
(* its brightness and color are the values read from the device at the     *)
(* start of the unit of work (null when the read gave nothing), and the    *)
(* only write the device received is attribute 1 with the value "01".      *)
(***************************************************************************)
C12_OnlyOn ==
  /\ req # None
  /\ Truthy(Val(req).action)
  /\ upper(Val(Val(req).action)) = <<"O","N">>
  /\ IsNone(Val(req).brightness)
  /\ ~Truthy(Val(req).color)

C12_PowerOnlyFrame ==
  C12_OnlyOn =>
    \A j \in 1..Len(results) :
      LET r == results[j]
          d == r.device_id
      IN r.success =>
           /\ r.power_state = Some("ON")
           /\ \E read \in {get_device_attributes(getAttributes(d)), NoAttrs} :
                r.brightness = read.brightness /\ r.color = read.color
           /\ wlog[d] = << [id |-> 1, value |-> <<"0","1">>, ok |-> TRUE] >>

C12_Witness ==
  /\ C12_OnlyOn
  /\ Responded200
  /\ Len(Val(resp).results) = 3
  /\ \A j \in 1..3 : Val(resp).results[j].success
  /\ \E j \in 1..3 : /\ Val(resp).results[j].brightness = Some(55)
                      /\ Val(resp).results[j].color = Some(<<"#","0","0","F","F","0","0">>)
  /\ \E j \in 1..3 : /\ Val(resp).results[j].device_id = 2
                      /\ Val(resp).results[j].brightness = None

(***************************************************************************)
(* C16: within the unit of work of one device the writes are issued in the *)
(* order power (1), brightness (2), color (4), each at most once and only  *)
(* when requested; after a write to the device raised no further write is  *)
(* issued to it in the same dispatch, and its result has success=false.    *)
(***************************************************************************)
C16_WriteOrder ==
  \A d \in DeviceIds :
    wlog[d] # <<>> =>
      LET w == wlog[d]
          asked == {RequestedIds[m] : m \in 1..Len(RequestedIds)}
      IN
      /\ \A k \in 1..Len(w) : w[k].id \in {1, 2, 4} \cap asked
      /\ \A k \in 1..(Len(w) - 1) : w[k].id < w[k + 1].id /\ w[k].ok
      /\ ~w[Len(w)].ok =>
           /\ \A i \in 1..threads :
                (target_devices[i] = d /\ wpc[i] = "returned") => ~Val(wres[i]).success
           /\ \A j \in 1..Len(results) : results[j].device_id = d => ~results[j].success

C16_Witness ==
  /\ Responded200
  /\ \E d \in Targets :
       /\ Len(wlog[d]) = 3
       /\ wlog[d][1].ok /\ wlog[d][2].ok /\ wlog[d][3].ok
  /\ \E d \in Targets :
       /\ Len(wlog[d]) = 2
       /\ wlog[d][1].ok /\ ~wlog[d][2].ok
       /\ \E j \in ResultsOf(d) : ~Val(resp).results[j].success

(***************************************************************************)
(* C17: a failure while the current attributes of a device are read or     *)
(* decoded at the start of its unit of work does not abort the command of  *)
(* that device.  A worker that has returned has attempted every requested  *)
(* write up to the first one that raised, whatever the read gave; stated   *)
(* for requests whose color, if any, has 6 digits, so that a violation is  *)
(* one of the read alone.                                                  *)
(***************************************************************************)
\* the attribute ids of the writeAction calls made on device d, in call order
C17_AttemptedIds(d) == [k \in 1..Len(wlog[d]) |-> wlog[d][k].id]

C17_ReadDoesNotAbort ==
  \A i \in 1..threads :
    ( /\ wpc[i] = "returned"
      /\ Truthy(Val(req).color) => ColorWritable(Val(Val(req).color)) ) =>
      LET d == target_devices[i] IN
      \/ C17_AttemptedIds(d) = RequestedIds
      \/ WriteRaised(d)

(***************************************************************************)
(* C15: a /control request that was answered with an error (401, 500, 400  *)
(* or 404) started no worker thread and wrote nothing to any device; and   *)
(* any vendor write of a request happens only after the request was        *)
(* authorized, refreshed, validated and had its targets resolved.          *)
(***************************************************************************)
C15_ErrorExitTouchesNothing ==
  /\ (Answered /\ Val(resp).status \in {401, 500, 400, 404}) =>
       /\ threads = 0
       /\ \A i \in Workers : wpc[i] = "unstarted"
       /\ \A d \in DeviceIds : wlog[d] = <<>>
  /\ (\E d \in DeviceIds : wlog[d] # <<>>) =>
       /\ Authorized
       /\ BrightnessFieldOk(Val(req).brightness)
       /\ ValidationError(Val(req)) = ""
       /\ {"Hubspace", "getDevices"} \subseteq vcalls
       /\ target_devices # <<>>
       /\ \A d \in DeviceIds : wlog[d] # <<>> => d \in Targets

(***************************************************************************)
(* C13: no cached device state is reported.  The device list that a        *)
(* /lights, /control or /health call uses or counts was fetched from the   *)
(* vendor during that call, also when the refresh of the call fails: a     *)
(* call whose refresh fetched no list reports no light of an earlier one.  *)
(***************************************************************************)
\* the refresh r reached line 95 and built the list it left in light_devices
C13_Fetched(r) == r.at \in {"none", "device"}

C13_NoCachedList ==
  /\ (get # None /\ Val(get).route = "/health") =>
       \/ /\ C13_Fetched(Val(get).refresh)
          /\ Val(get).resp.lights_available = Len(Val(get).refresh.light_devices)
       \/ Val(get).resp.lights_available = 0
  /\ (get # None /\ Val(get).route = "/lights" /\ Val(get).resp.status = 200) =>
       /\ C13_Fetched(Val(get).refresh)
       /\ Val(get).resp.count = Len(Val(get).refresh.light_devices)
  /\ (req # None /\ target_devices # <<>>) =>
       /\ refresh # None
       /\ C13_Fetched(Val(refresh))
       /\ \A i \in 1..Len(target_devices) :
            \E k \in 1..Len(Val(refresh).light_devices) :
              Val(refresh).light_devices[k] = target_devices[i]

(***************************************************************************)
(* C14: when the refresh at the start of an authorized POST /control or of *)
(* GET /lights fails, the answer is 500 and no attribute of any device is  *)
(* read or written; GET /health whose refresh fails still answers 200,     *)
(* with hubspace_connected=false.                                          *)
(***************************************************************************)
C14_NoAttribute(calls) == calls \cap {"getAttributes", "writeAction"} = {}

C14_RefreshFailure ==
  /\ (req # None /\ refresh # None /\ Val(refresh).at # "none") =>
       /\ pc = "idle"
       /\ resp = HTTPError(500, "Failed to authenticate with Hubspace")
       /\ C14_NoAttribute(vcalls)
       /\ threads = 0
       /\ \A d \in DeviceIds : wlog[d] = <<>>
  /\ (get # None /\ Val(get).route = "/lights" /\ Val(get).refresh.at # "none") =>
       /\ Val(get).resp = Val(HTTPError(500, "Failed to authenticate with Hubspace"))
       /\ C14_NoAttribute(Val(get).calls)
  /\ (get # None /\ Val(get).route = "/health" /\ Val(get).refresh.at # "none") =>
       /\ Val(get).resp.status = 200
       /\ Val(get).resp.hubspace_connected = FALSE
       /\ C14_NoAttribute(Val(get).calls)

C14_Witness ==
  /\ Answered
  /\ Authorized
  /\ Val(refresh).at = "getDevices"
  /\ Val(resp).status = 500
  /\ get # None
  /\ Val(get).route = "/lights"
  /\ Val(get).refresh.at = "Hubspace"
  /\ Val(get).resp.status = 500

(***************************************************************************)
(* C19: request isolation over the global light_devices.  From its own     *)
(* refresh until its targets are resolved a /control request sees in       *)
(* light_devices the list that its own refresh built; its targets are the  *)
(* lights of that list which it names; and every thread, result and write  *)
(* of the request is about one of its targets, also after another          *)
(* request has refreshed the global list.                                  *)
(***************************************************************************)
\* the list that the refresh of the /control request built
C19_OwnList == Val(refresh).light_devices

C18_InFlight == Authorized /\ pc # "idle"

C18_AllStarted ==
  /\ req # None
  /\ pc = "dispatch"
  /\ threads = Len(target_devices)

C20_Lights == 1..Len(script_lights)

C20_IsOn(w) == w.id = 1 /\ w.value = <<"0","1">>

C20_IsOff(w) == w.id = 1 /\ w.value = <<"0","0">>

\* no OFF write before the ON thread of every light has ended
C20_Barrier ==
  (\E d \in DeviceIds : \E k \in 1..Len(script_log[d]) : C20_IsOff(script_log[d][k])) =>
    \A i \in C20_Lights : on_threads[i] = "ended"

\* a device is written at most one ON and then at most one OFF, and only a light
C20_AtMostOnThenOff ==
  \A d \in DeviceIds :
    /\ Len(script_log[d]) <= 2
    /\ Len(script_log[d]) >= 1 => C20_IsOn(script_log[d][1])
    /\ Len(script_log[d]) = 2 => C20_IsOff(script_log[d][2])
    /\ script_log[d] # <<>> => \E i \in C20_Lights : script_lights[i] = d

\* the script has found lights and has come to its end, its threads too
C20_Over ==
  /\ spc \in {"completed", "error"}
  /\ script_lights # <<>>
  /\ \A i \in Workers : on_threads[i] # "running" /\ off_threads[i] # "running"

\* C20 as it stands
C20_OnThenOff ==
  /\ C20_Barrier
  /\ C20_AtMostOnThenOff
  /\ C20_Over => \A i \in C20_Lights : Len(script_log[script_lights[i]]) = 2

\* C20 amended: a light is written ON exactly when its ON thread was started and
\* OFF exactly when its OFF thread was started; every thread of both phases is
\* started, whatever the outcome of the writes, unless getName raises in a loop
\* that starts the threads, which ends the script there.
C20_OnThenOffUnlessNameFails ==
  /\ C20_Barrier
  /\ C20_AtMostOnThenOff
  /\ \A i \in C20_Lights :
       /\ Len(script_log[script_lights[i]]) =
            (IF on_threads[i] = "ended" THEN 1 ELSE 0)
            + (IF off_threads[i] = "ended" THEN 1 ELSE 0)
       /\ off_threads[i] # "unstarted" => \A j \in C20_Lights : on_threads[j] = "ended"
  /\ spc \in {"off_start", "off_join", "states", "completed"} =>
       \A i \in C20_Lights : on_threads[i] = "ended"
  /\ spc \in {"states", "completed"} =>
       \A i \in C20_Lights : Len(script_log[script_lights[i]]) = 2
  /\ (C20_Over /\ \E i \in C20_Lights : Len(script_log[script_lights[i]]) # 2) =>
       \E i \in C20_Lights : on_threads[i] = "unstarted" \/ off_threads[i] = "unstarted"

\* the ON write of the first light failed, and yet every light was written ON
\* and then OFF
C20_Witness ==
  /\ spc = "completed"
  /\ Len(script_lights) = 3
  /\ ~script_log[script_lights[1]][1].ok
  /\ \A i \in C20_Lights :
       /\ Len(script_log[script_lights[i]]) = 2
       /\ i > 1 => script_log[script_lights[i]][1].ok

====
